---- MODULE Spec2Model ----
(***************************************************************************)
(* A model of the stock-analysis dashboard (src/app.py): the analytics     *)
(* pipeline process_data, the st.cache_data wrappers around the external   *)
(* calls, the favorites document kept in a GitHub repository, and the      *)
(* Streamlit script run with its session state.                            *)
(***************************************************************************)
EXTENDS Integers, Sequences, FiniteSets, TLC

VARIABLES full_data, processed_data, fig,      \* the pipeline on its own
          remote,          \* the favorites document of the GitHub repository
          cache,           \* the entries of st.cache_data, shared by the sessions
          now,             \* the clock, in seconds
          session_state,   \* st.session_state of every session
          pc,              \* where every session's script run stands
          page,            \* the widgets every session's page shows
          frame,           \* the locals of every session's script run
          obs,             \* what every session's latest run did
          calls,           \* the cached calls of the latest step
          unread_write     \* a write succeeded and no read was made since

pipeVars == <<full_data, processed_data, fig>>
appVars == <<remote, cache, now, session_state, pc, page, frame, obs, calls, unread_write>>
vars == <<pipeVars, appVars>>

(***************************************************************************)
(* Bounds of the model and constants of the program.                       *)
(***************************************************************************)
MaxBars == 453        \* longest price history that is drawn
MaxYears == 3         \* most annual periods of a financial statement

ShortWindow == 50     \* rolling_mean(window_size=50)
LongWindow == 200     \* rolling_mean(window_size=200)
ViewRows == 252       \* hist_pl.tail(252)

Prices == {10, 20}
FinValues == {-1, 0, 2}
CagrCols == <<"Total Revenue", "Net Income">>

Max(a, b) == IF a > b THEN a ELSE b
Min(a, b) == IF a < b THEN a ELSE b
Range(s) == {s[i] : i \in 1..Len(s)}

(***************************************************************************)
(* A polars null is the empty tuple; a present value v is <<v>>.           *)
(***************************************************************************)
Null == <<>>

(***************************************************************************)
(* The inputs: a history is an ascending sequence of daily bars, drawn     *)
(* from the piecewise-constant closes with at most two changes; the        *)
(* financials are a table whose rows are the annual periods, most recent   *)
(* first, and whose columns may be missing.                                *)
(***************************************************************************)
Bar(c) == [Close |-> c, High |-> c + 1, Low |-> c - 1]

Steps(n, k1, k2, a, b, c) ==
    [i \in 1..n |-> Bar(IF i <= k1 THEN a ELSE IF i <= k2 THEN b ELSE c)]

HistLens == {0, 1, LongWindow - 1, LongWindow, LongWindow + 1, MaxBars - 1, MaxBars}
Breaks == {<<0, 0>>, <<0, 300>>, <<201, 201>>, <<201, 300>>, <<250, 250>>, <<250, 300>>,
           <<MaxBars - ViewRows, MaxBars - ViewRows>>}

Histories ==
    {Steps(n, k[1], k[2], a, b, c) : n \in HistLens, k \in Breaks,
                                     a \in Prices, b \in Prices, c \in Prices}

Cells == {Null} \cup {<<v>> : v \in FinValues}

Financials ==
    UNION {UNION {[cols -> [1..n -> Cells]] : cols \in SUBSET Range(CagrCols)} :
           n \in 0..MaxYears}

NoFinancials == [c \in {} |-> <<>>]

(***************************************************************************)
(* process_data, lines 85-91: the RSI columns.  delta is null in the first *)
(* row; gain and loss are non-negative.  ewm_mean(span=14, adjust=False)   *)
(* is y[1] = x[1], y[t] = (13/15) y[t-1] + (2/15) x[t]: for a non-negative *)
(* x, y[t] is 0 exactly when x[1..t] are all 0 and is positive otherwise,  *)
(* so each average is carried by its sign (0 or 1).                        *)
(***************************************************************************)
delta(hist, i) == IF i = 1 THEN Null ELSE <<hist[i].Close - hist[i - 1].Close>>

clip_lower(c, bound) == IF c = Null THEN Null ELSE <<Max(c[1], bound)>>
clip_upper(c, bound) == IF c = Null THEN Null ELSE <<Min(c[1], bound)>>
fill_null(c, v) == IF c = Null THEN v ELSE c[1]

gain(hist, i) == fill_null(clip_lower(delta(hist, i), 0), 0)
loss(hist, i) == -fill_null(clip_upper(delta(hist, i), 0), 0)

avg_gain(hist, i) == IF \E j \in 1..i : gain(hist, j) > 0 THEN 1 ELSE 0
avg_loss(hist, i) == IF \E j \in 1..i : loss(hist, j) > 0 THEN 1 ELSE 0

(***************************************************************************)
(* rs = avg_gain / avg_loss and rsi = 100 - 100 / (1 + rs) in IEEE         *)
(* arithmetic: x/0 is infinite for x > 0 and 0/0 is NaN.  A value is       *)
(* [kind, lo, hi]: NaN, or a number v with lo <= v <= hi.                  *)
(***************************************************************************)
rs(g, l) ==
    IF l = 0 THEN (IF g = 0 THEN "nan" ELSE "inf")
    ELSE (IF g = 0 THEN "zero" ELSE "finite")

rsi(g, l) ==
    CASE rs(g, l) = "nan"    -> [kind |-> "nan", lo |-> 0, hi |-> 0]
      [] rs(g, l) = "inf"    -> [kind |-> "num", lo |-> 100, hi |-> 100]
      [] rs(g, l) = "zero"   -> [kind |-> "num", lo |-> 0, hi |-> 0]
      [] rs(g, l) = "finite" -> [kind |-> "num", lo |-> 0, hi |-> 100]

(***************************************************************************)
(* process_data, lines 92-96: the moving averages, null until the window   *)
(* is full; a mean is the fraction [num, den].  Then drop_nulls.           *)
(***************************************************************************)
RECURSIVE window_sum(_, _, _)
window_sum(hist, i, w) ==
    IF w = 0 THEN 0
    ELSE IF w = 1 THEN hist[i].Close
    ELSE window_sum(hist, i, w \div 2) + window_sum(hist, i - w \div 2, w - w \div 2)

rolling_mean(hist, i, w) ==
    IF i < w THEN Null ELSE <<[num |-> window_sum(hist, i, w), den |-> w]>>

with_columns(hist) ==
    LET n == Len(hist)
    IN  [i \in 1..n |->
            [Date |-> i, Close |-> hist[i].Close, High |-> hist[i].High,
             Low |-> hist[i].Low,
             MA50 |-> rolling_mean(hist, i, ShortWindow),
             MA200 |-> rolling_mean(hist, i, LongWindow),
             RSI |-> rsi(avg_gain(hist, i), avg_loss(hist, i))]]

HasNull(row) == row.MA50 = Null \/ row.MA200 = Null

Unwrap(row) == [row EXCEPT !.MA50 = row.MA50[1], !.MA200 = row.MA200[1]]

drop_nulls(rows) ==
    LET kept == SelectSeq(rows, LAMBDA r : ~HasNull(r))
    IN  [i \in 1..Len(kept) |-> Unwrap(kept[i])]

tail(s, k) == SubSeq(s, Max(1, Len(s) - k + 1), Len(s))

(***************************************************************************)
(* process_data, lines 97-101: the display window, its extrema and the     *)
(* cross events.                                                           *)
(***************************************************************************)
Greater(x, y) == x.num * y.den > y.num * x.den

col_max(view, f) ==
    IF Len(view) = 0 THEN Null
    ELSE <<CHOOSE m \in {view[i][f] : i \in 1..Len(view)} :
              \A i \in 1..Len(view) : view[i][f] <= m>>

col_min(view, f) ==
    IF Len(view) = 0 THEN Null
    ELSE <<CHOOSE m \in {view[i][f] : i \in 1..Len(view)} :
              \A i \in 1..Len(view) : view[i][f] >= m>>

max_point(view) ==
    LET m == col_max(view, "High")
    IN  SelectSeq(view, LAMBDA r : m # Null /\ r.High = m[1])

min_point(view) ==
    LET m == col_min(view, "Low")
    IN  SelectSeq(view, LAMBDA r : m # Null /\ r.Low = m[1])

cross_signal_ties_up(row) == IF ~Greater(row.MA200, row.MA50) THEN 1 ELSE -1
cross_signal(row) == IF Greater(row.MA50, row.MA200) THEN 1 ELSE -1

with_cross(view) ==
    [j \in 1..Len(view) |->
        [Date |-> view[j].Date, MA50 |-> view[j].MA50, MA200 |-> view[j].MA200,
         cross |-> IF j = 1 THEN Null
                   ELSE <<cross_signal(view[j]) - cross_signal(view[j - 1])>>]]

cross_events(view) ==
    SelectSeq(with_cross(view), LAMBDA r : r.cross # Null /\ r.cross[1] # 0)

(***************************************************************************)
(* process_data, lines 102-112: the growth rates.  An entry keeps the      *)
(* three numbers its formatted text is computed from.  "start_val and      *)
(* end_val" is Python truth: false for 0.  A negative ratio raised to      *)
(* 1/num_years with num_years > 1 is a complex number, whose formatting    *)
(* with ".2%" raises ValueError.                                           *)
(***************************************************************************)
non_null(col) == SelectSeq(col, LAMBDA c : c # Null)

Truthy(x) == x # 0

cagr_of(financials, col) ==
    IF col \in DOMAIN financials /\ Len(non_null(financials[col])) > 1
    THEN LET vals == non_null(financials[col])
             start_val == vals[Len(vals)][1]
             end_val == vals[1][1]
             num_years == Len(vals) - 1
         IN  IF Truthy(start_val) /\ Truthy(end_val) /\ start_val > 0 /\ num_years > 0
             THEN IF end_val < 0 /\ num_years > 1
                  THEN [kind |-> "raise"]
                  ELSE [kind |-> "entry", start_val |-> start_val,
                        end_val |-> end_val, num_years |-> num_years]
             ELSE [kind |-> "absent"]
    ELSE [kind |-> "absent"]

cagr(financials) ==
    LET cols == {c \in Range(CagrCols) : cagr_of(financials, c).kind = "entry"}
    IN  [c \in cols |-> cagr_of(financials, c)]

cagr_raises(financials) ==
    \E c \in Range(CagrCols) : cagr_of(financials, c).kind = "raise"

process_data(data) ==
    LET view_data == tail(drop_nulls(with_columns(data.history)), ViewRows)
    IN  IF cagr_raises(data.financials)
        THEN [status |-> "raised"]
        ELSE [status |-> "ok",
              history |-> view_data,
              max_point |-> max_point(view_data),
              min_point |-> min_point(view_data),
              cross_events |-> cross_events(view_data),
              cagr |-> cagr(data.financials)]

(***************************************************************************)
(* The chart, lines 209-213: one marker per cross event.                   *)
(***************************************************************************)
cross_marker(row) ==
    [Date |-> row.Date, name |-> IF row.cross[1] > 0 THEN "golden" ELSE "death"]

render_crosses(processed) ==
    [j \in 1..Len(processed.cross_events) |-> cross_marker(processed.cross_events[j])]

(***************************************************************************)
(* The pipeline on its own: process_data and the chart's cross markers     *)
(* applied to every drawn input.                                           *)
(***************************************************************************)
PipeInputs ==
    {[history |-> h, financials |-> NoFinancials] : h \in Histories}
    \cup {[history |-> <<Bar(10)>>, financials |-> f] : f \in Financials}

InitPipe ==
    /\ full_data \in PipeInputs
    /\ processed_data = [status |-> "none"]
    /\ fig = <<>>

Process ==
    /\ processed_data.status = "none"
    /\ processed_data' = process_data(full_data)
    /\ UNCHANGED <<full_data, fig>>

RenderChart ==
    /\ processed_data.status = "ok"
    /\ fig = <<>>
    /\ Len(processed_data.cross_events) > 0
    /\ fig' = render_crosses(processed_data)
    /\ UNCHANGED <<full_data, processed_data>>

NextPipe == Process \/ RenderChart

(***************************************************************************)
(* The application.  Bounds and constants.                                 *)
(***************************************************************************)
MaxSha == 3           \* most revisions of the favorites document
MaxNow == 600         \* the clock stops here

ReadTTL == 60         \* @st.cache_data(ttl=60) of read_favorites_from_github
DataTTL == 600        \* @st.cache_data(ttl=600) of fetch_full_data
ScrapeTTL == 600      \* @st.cache_data(ttl=600) of scrape_finviz_data

Sessions == {"s1", "s2"}
SearchInputs == {"MSFT", "msft"}          \* what the user types in the search form
ClickInputs == {"MSFT", "msft"}           \* the sidebar buttons the user clicks
TickSteps == {300}                        \* how far the clock moves in one step
DefaultFavorites == <<"MSFT", "AAPL", "GOOG", "NVDA">>
DefaultTicker == "MSFT"

(***************************************************************************)
(* Python's order of the ticker strings (upper case sorts before lower     *)
(* case) and str.upper on them.                                            *)
(***************************************************************************)
SortOrder == <<"AAPL", "GOOG", "MSFT", "NVDA", "msft">>
sorted_set(list) == SelectSeq(SortOrder, LAMBDA t : t \in Range(list))
upper(t) == IF t = "msft" THEN "MSFT" ELSE t

Put(f, k, v) == [x \in DOMAIN f \cup {k} |-> IF x = k THEN v ELSE f[x]]
Has(f, k) == k \in DOMAIN f

list_remove(list, x) ==
    LET i == CHOOSE j \in 1..Len(list) : list[j] = x /\ \A k \in 1..(j - 1) : list[k] # x
    IN  [j \in 1..(Len(list) - 1) |-> IF j < i THEN list[j] ELSE list[j + 1]]

(***************************************************************************)
(* The market data: fetch_full_data holds the provider's answer, one of    *)
(* the datasets below, and process_data works on it.  "short" has fewer    *)
(* bars than the long window, "long" has a full display window.            *)
(***************************************************************************)
Dataset ==
    [short |-> [history |-> Steps(LongWindow - 1, 0, 0, 10, 10, 10),
                financials |-> NoFinancials],
     long  |-> [history |-> Steps(LongWindow + ViewRows, 250, 300, 10, 20, 10),
                financials |-> NoFinancials]]

Processed == [d \in DOMAIN Dataset |-> process_data(Dataset[d])]

Bars == [d \in DOMAIN Dataset |-> Len(Dataset[d].history)]

(***************************************************************************)
(* st.cache_data: an entry is fresh until ttl seconds after it was         *)
(* computed.  A call with a fresh entry returns the entry's value; any     *)
(* other call runs the function and stores what it returns; what the       *)
(* function raises goes to the caller and nothing is stored.               *)
(***************************************************************************)
ReadKey == [fn |-> "read_favorites_from_github", arg |-> ""]
DataKey(t) == [fn |-> "fetch_full_data", arg |-> t]
ScrapeKey(t) == [fn |-> "scrape_finviz_data", arg |-> t]

ttl(k) ==
    CASE k.fn = "read_favorites_from_github" -> ReadTTL
      [] k.fn = "fetch_full_data" -> DataTTL
      [] k.fn = "scrape_finviz_data" -> ScrapeTTL

Fresh(c, k, t) == k \in DOMAIN c /\ t < c[k].computed_at + ttl(k)

Without(c, k) == [x \in DOMAIN c \ {k} |-> c[x]]

\* result: what the wrapped function does when it runs, [raised, value, failed]
cache_data(c, k, t, result) ==
    IF Fresh(c, k, t)
    THEN [cache |-> c, value |-> c[k].value, raised |-> FALSE,
          call |-> [key |-> k, invoked |-> 0, raised |-> FALSE, failed |-> FALSE,
                    value |-> c[k].value, after_write |-> unread_write]]
    ELSE IF result.raised
    THEN [cache |-> Without(c, k), value |-> result.value, raised |-> TRUE,
          call |-> [key |-> k, invoked |-> 1, raised |-> TRUE, failed |-> TRUE,
                    value |-> result.value, after_write |-> unread_write]]
    ELSE [cache |-> Put(c, k, [value |-> result.value, computed_at |-> t]),
          value |-> result.value, raised |-> FALSE,
          call |-> [key |-> k, invoked |-> 1, raised |-> FALSE, failed |-> result.failed,
                    value |-> result.value, after_write |-> unread_write]]

cache_clear == [k \in {} |-> 0]

\* st.cache_data.clear(), line 62
clear_nothing(c) == c
clear(c) == cache_clear

(***************************************************************************)
(* The wrapped functions.  outcome is what the external service does.      *)
(* The value of a read carries the revision it was read at (rev), which    *)
(* the program does not keep: -1 when nothing was read, 0 when the         *)
(* document does not exist.                                                *)
(***************************************************************************)
read_favorites_from_github(outcome) ==
    IF outcome = "error"
    THEN [raised |-> FALSE, failed |-> TRUE, value |-> [list |-> <<>>, rev |-> -1]]
    ELSE IF remote.exists
    THEN [raised |-> FALSE, failed |-> FALSE,
          value |-> [list |-> remote.content, rev |-> remote.sha]]
    ELSE [raised |-> FALSE, failed |-> FALSE,
          value |-> [list |-> DefaultFavorites, rev |-> 0]]

None == "None"

fetch_full_data(outcome) ==
    CASE outcome = "error" -> [raised |-> FALSE, failed |-> TRUE, value |-> None]
      [] outcome = "empty" -> [raised |-> FALSE, failed |-> FALSE, value |-> None]
      [] OTHER -> [raised |-> FALSE, failed |-> FALSE, value |-> outcome]

\* every failure before line 124 reaches the handler with metrics_to_get unbound
scrape_finviz_data(outcome) ==
    IF outcome = "error"
    THEN [raised |-> TRUE, failed |-> TRUE, value |-> "NameError"]
    ELSE [raised |-> FALSE, failed |-> FALSE, value |-> "metrics"]

HistoryOutcomes == {"error", "empty"} \cup DOMAIN Dataset
ServiceOutcomes == {"ok", "error"}

(***************************************************************************)
(* The favorites document.  GitHub applies update_file only to the         *)
(* revision whose sha the request names and create_file only while the     *)
(* path does not exist; a revision of 0 is "no document".                  *)
(***************************************************************************)
NoDocument == [exists |-> FALSE, content |-> <<>>, sha |-> 0]

update_file(doc, contents, sha) ==
    IF doc.exists /\ doc.sha = sha
    THEN [ok |-> TRUE, doc |-> [exists |-> TRUE, content |-> contents, sha |-> doc.sha + 1]]
    ELSE [ok |-> FALSE, doc |-> doc]

create_file(doc, contents) ==
    IF ~doc.exists
    THEN [ok |-> TRUE, doc |-> [exists |-> TRUE, content |-> contents, sha |-> doc.sha + 1]]
    ELSE [ok |-> FALSE, doc |-> doc]

(***************************************************************************)
(* One script run, lines 138-194, for the event that started it: "load"    *)
(* (a new session), "none" (st.rerun), "fav" (a sidebar button), "search"  *)
(* (the form) or "star" (the fav_toggle button).  The run stops at the     *)
(* call of write_favorites_to_github (pc "w_get"), after the star column   *)
(* (pc "render"), or at its end (pc "idle").                               *)
(***************************************************************************)
NoFrame == [ticker |-> "", data |-> None, contents |-> <<>>, file |-> 0]
NoPage == [star |-> FALSE, sidebar |-> {}]
NoObs == [event |-> "", outcome |-> "", wrote |-> FALSE, toggle |-> "none",
          before |-> <<>>, read_rev |-> -1, bars |-> -1]

Commit(s, ss, c, cl, newpc, pg, fr, ob) ==
    /\ session_state' = [session_state EXCEPT ![s] = ss]
    /\ cache' = c
    /\ calls' = cl
    /\ pc' = [pc EXCEPT ![s] = newpc]
    /\ page' = [page EXCEPT ![s] = pg]
    /\ frame' = [frame EXCEPT ![s] = fr]
    /\ obs' = [obs EXCEPT ![s] = ob]
    /\ unread_write' = (unread_write /\ \A i \in 1..Len(cl) : cl[i].key # ReadKey)
    /\ UNCHANGED <<remote, now, pipeVars>>

set_search(ss, ticker) == Put(Put(ss, "ticker_to_search", ticker), "run_search", TRUE)

\* lines 184-194, up to the call of write_favorites_to_github
star_column(s, ev, ss, c, cl, ob, sidebar, ticker, data) ==
    LET is_favorite == ticker \in Range(ss.favorites)
        toggled == IF is_favorite THEN list_remove(ss.favorites, ticker)
                   ELSE Append(ss.favorites, ticker)
        pg == [star |-> TRUE, sidebar |-> sidebar]
        fr == [NoFrame EXCEPT !.ticker = ticker, !.data = data]
    IN  IF ev.kind = "star"
        THEN Commit(s, Put(ss, "favorites", toggled), c, cl, "w_get", pg, fr,
                    [ob EXCEPT !.wrote = TRUE, !.toggle = "pending",
                               !.before = ss.favorites, !.outcome = "running"])
        ELSE Commit(s, ss, c, cl, "render", pg, fr, [ob EXCEPT !.outcome = "running"])

\* an external service answers only the calls that reach it
Asked(c, k, outcomes) == IF Fresh(c, k, now) THEN {"unasked"} ELSE outcomes

\* lines 172-194
metrics_and_star(s, ev, ss, c, cl, ob, sidebar, ticker, data) ==
    \E so \in Asked(c, ScrapeKey(ticker), ServiceOutcomes) :
        LET sc == cache_data(c, ScrapeKey(ticker), now, scrape_finviz_data(so))
        IN  IF sc.raised
            THEN Commit(s, ss, sc.cache, Append(cl, sc.call), "idle",
                        [star |-> FALSE, sidebar |-> sidebar], NoFrame,
                        [ob EXCEPT !.outcome = "scrape_raised"])
            ELSE star_column(s, ev, ss, sc.cache, Append(cl, sc.call), ob,
                             sidebar, ticker, data)

\* lines 166-171 and 245-248
analysis(s, ev, ss, c, cl, ob, sidebar) ==
    \E fo \in Asked(c, DataKey(ss.ticker_to_search), HistoryOutcomes) :
        LET ticker == ss.ticker_to_search
            fd == cache_data(c, DataKey(ticker), now, fetch_full_data(fo))
            cl2 == Append(cl, fd.call)
            pg == [star |-> FALSE, sidebar |-> sidebar]
        IN  IF fd.value # None
            THEN IF Processed[fd.value].status = "raised"
                 THEN Commit(s, ss, fd.cache, cl2, "idle", pg, NoFrame,
                             [ob EXCEPT !.bars = Bars[fd.value], !.outcome = "process_raised"])
                 ELSE metrics_and_star(s, ev, ss, fd.cache, cl2,
                                       [ob EXCEPT !.bars = Bars[fd.value]],
                                       sidebar, ticker, fd.value)
            ELSE Commit(s, Put(ss, "run_search", FALSE), fd.cache, cl2, "idle", pg,
                        NoFrame,
                        [ob EXCEPT !.outcome = "no_data",
                                   !.bars = IF fo = "empty" THEN 0 ELSE -1])

\* lines 138-166 and 250-251
Run(s, ev) ==
    \E ro \in IF Has(session_state[s], "favorites") THEN {"unasked"}
               ELSE Asked(cache, ReadKey, ServiceOutcomes) :
        LET ss0 == session_state[s]
            need_read == ~Has(ss0, "favorites")
            rd == cache_data(cache, ReadKey, now, read_favorites_from_github(ro))
            ss1 == IF need_read THEN Put(ss0, "favorites", rd.value.list) ELSE ss0
            c1 == IF need_read THEN rd.cache ELSE cache
            cl1 == IF need_read THEN <<rd.call>> ELSE <<>>
            ob == [obs[s] EXCEPT !.event = ev.kind, !.wrote = FALSE, !.bars = -1,
                                 !.read_rev = IF need_read THEN rd.value.rev ELSE @]
            sidebar == Range(ss1.favorites)
            ss2 == IF ev.kind = "fav" /\ ev.ticker \in sidebar
                   THEN set_search(ss1, ev.ticker) ELSE ss1
            ss3 == IF ev.kind = "search" THEN set_search(ss2, ev.ticker) ELSE ss2
            ss4 == IF Has(ss3, "ticker_to_search") THEN ss3
                   ELSE Put(ss3, "ticker_to_search", DefaultTicker)
            ss5 == IF Has(ss4, "run_search") THEN ss4 ELSE Put(ss4, "run_search", TRUE)
        IN  IF ss5.run_search
            THEN analysis(s, ev, ss5, c1, cl1, ob, sidebar)
            ELSE Commit(s, ss5, c1, cl1, "idle", [star |-> FALSE, sidebar |-> sidebar],
                        NoFrame, [ob EXCEPT !.outcome = "info"])

(***************************************************************************)
(* What starts a run.  A widget can be clicked while it is on the page:    *)
(* after a run (pc "idle") or during one that has drawn it (pc "render"),  *)
(* which that click stops.                                                 *)
(***************************************************************************)
Interactive(s) == pc[s] \in {"idle", "render"}

Load(s) == pc[s] = "new" /\ Run(s, [kind |-> "load", ticker |-> ""])

Rerun(s) == pc[s] = "rerun" /\ Run(s, [kind |-> "none", ticker |-> ""])

StarClick(s) ==
    /\ Interactive(s)
    /\ page[s].star
    /\ Run(s, [kind |-> "star", ticker |-> ""])

FavClick(s) ==
    /\ Interactive(s)
    /\ \E t \in page[s].sidebar \cap ClickInputs : Run(s, [kind |-> "fav", ticker |-> t])

Search(s) ==
    /\ Interactive(s)
    /\ \E t \in SearchInputs : Run(s, [kind |-> "search", ticker |-> t])

(***************************************************************************)
(* The rest of a run, lines 196-248: row(-1) of an empty display window    *)
(* raises, and only a run that gets to line 248 resets run_search.         *)
(***************************************************************************)
FinishRun(s) ==
    /\ pc[s] = "render"
    /\ IF Len(Processed[frame[s].data].history) = 0
       THEN Commit(s, session_state[s], cache, <<>>, "idle", page[s], NoFrame,
                   [obs[s] EXCEPT !.outcome = "row_raised"])
       ELSE Commit(s, Put(session_state[s], "run_search", FALSE), cache, <<>>, "idle",
                   page[s], NoFrame, [obs[s] EXCEPT !.outcome = "rendered"])

(***************************************************************************)
(* write_favorites_to_github, lines 54-66, in its two requests.            *)
(***************************************************************************)
WriteFailed(s) ==
    /\ pc' = [pc EXCEPT ![s] = "render"]
    /\ frame' = [frame EXCEPT ![s].contents = <<>>, ![s].file = 0]
    /\ obs' = [obs EXCEPT ![s].toggle = "failed"]
    /\ calls' = <<>>
    /\ UNCHANGED <<remote, cache, now, session_state, page, unread_write, pipeVars>>

WriteGet(s) ==
    /\ pc[s] = "w_get"
    /\ \E outcome \in ServiceOutcomes :
          IF outcome = "error"
          THEN WriteFailed(s)
          ELSE /\ pc' = [pc EXCEPT ![s] = "w_put"]
               /\ frame' = [frame EXCEPT
                               ![s].contents = sorted_set(session_state[s].favorites),
                               ![s].file = IF remote.exists THEN remote.sha ELSE 0]
               /\ calls' = <<>>
               /\ UNCHANGED <<remote, cache, now, session_state, page, obs,
                              unread_write, pipeVars>>

WritePut(s) ==
    /\ pc[s] = "w_put"
    /\ remote.sha < MaxSha
    /\ \E outcome \in ServiceOutcomes :
          LET put == IF frame[s].file = 0
                     THEN create_file(remote, frame[s].contents)
                     ELSE update_file(remote, frame[s].contents, frame[s].file)
          IN  IF outcome = "ok" /\ put.ok
              THEN /\ remote' = put.doc
                   /\ cache' = clear(cache)
                   /\ unread_write' = TRUE
                   /\ pc' = [pc EXCEPT ![s] = "rerun"]
                   /\ frame' = [frame EXCEPT ![s] = NoFrame]
                   /\ obs' = [obs EXCEPT ![s].toggle = "ok", ![s].outcome = "rerun",
                                         ![s].read_rev = put.doc.sha]
                   /\ calls' = <<>>
                   /\ UNCHANGED <<now, session_state, page, pipeVars>>
              ELSE WriteFailed(s)

(***************************************************************************)
(* The clock, and a browser reload, which starts the session anew.         *)
(***************************************************************************)
Tick ==
    /\ \E d \in TickSteps : now + d <= MaxNow /\ now' = now + d
    /\ calls' = <<>>
    /\ UNCHANGED <<remote, cache, session_state, pc, page, frame, obs, unread_write, pipeVars>>

Reload(s) ==
    /\ pc[s] = "idle"
    /\ session_state' = [session_state EXCEPT ![s] = [k \in {} |-> 0]]
    /\ pc' = [pc EXCEPT ![s] = "new"]
    /\ page' = [page EXCEPT ![s] = NoPage]
    /\ obs' = [obs EXCEPT ![s] = NoObs]
    /\ calls' = <<>>
    /\ UNCHANGED <<remote, cache, now, frame, unread_write, pipeVars>>

(***************************************************************************)
(* Specifications.                                                         *)
(*   Spec          one browser session and everything its user can do,     *)
(*                 the clock standing still                                *)
(*   SpecSessions  two sessions that load the page and toggle the star     *)
(*   SpecTimed     one browser that loads, toggles and reloads, with the   *)
(*                 clock                                                   *)
(*   SpecPipe      process_data and the chart's cross markers on their own *)
(***************************************************************************)
InitRemotes == {NoDocument, [exists |-> TRUE, content |-> <<"AAPL">>, sha |-> 1]}

InitApp ==
    /\ remote \in InitRemotes
    /\ cache = cache_clear
    /\ now = 0
    /\ session_state = [s \in Sessions |-> [k \in {} |-> 0]]
    /\ pc = [s \in Sessions |-> "new"]
    /\ page = [s \in Sessions |-> NoPage]
    /\ frame = [s \in Sessions |-> NoFrame]
    /\ obs = [s \in Sessions |-> NoObs]
    /\ calls = <<>>
    /\ unread_write = FALSE

IdlePipe ==
    /\ full_data = [history |-> <<>>, financials |-> NoFinancials]
    /\ processed_data = [status |-> "none"]
    /\ fig = <<>>

Init == InitApp /\ IdlePipe

Browser == "s1"

Next ==
    \/ Load(Browser)
    \/ Rerun(Browser)
    \/ StarClick(Browser)
    \/ FavClick(Browser)
    \/ Search(Browser)
    \/ FinishRun(Browser)
    \/ WriteGet(Browser)
    \/ WritePut(Browser)

Spec == Init /\ [][Next]_vars

NextSessions ==
    \E s \in Sessions :
        \/ Load(s)
        \/ Rerun(s)
        \/ StarClick(s)
        \/ FinishRun(s)
        \/ WriteGet(s)
        \/ WritePut(s)

SpecSessions == Init /\ [][NextSessions]_vars

NextTimed ==
    \/ Load(Browser)
    \/ Rerun(Browser)
    \/ StarClick(Browser)
    \/ FinishRun(Browser)
    \/ WriteGet(Browser)
    \/ WritePut(Browser)
    \/ Reload(Browser)
    \/ Tick

SpecTimed == Init /\ [][NextTimed]_vars

InitPipeline == InitPipe /\ InitApp /\ remote = NoDocument

NextPipeline == NextPipe /\ UNCHANGED appVars

SpecPipe == InitPipeline /\ [][NextPipeline]_vars

(***************************************************************************)
(* The claims.                                                             *)
(***************************************************************************)
Favorites(s) == Range(session_state[s].favorites)

\* C1: a write changes the remote document only if the document's revision is
\* still the one the writing session last read; a write based on an older
\* revision leaves the document as it is.
C1_WriteOnlyOnReadRevision ==
    [][remote' # remote =>
          \E s \in Sessions :
              /\ pc[s] = "w_put" /\ pc'[s] = "rerun"
              /\ (obs[s].read_rev >= 0 => remote.sha = obs[s].read_rev)]_vars

\* C2: the run that handles a click on the star calls the watchlist write,
\* whatever run_search was when the click came.
C2_ToggleClickWrites ==
    \A s \in Sessions : obs[s].event = "star" => obs[s].wrote

\* C3: a cached call whose underlying fetch failed leaves no entry for its key,
\* so that the next call within the TTL fetches again.
C3_FailureNotCached ==
    \A i \in 1..Len(calls) : calls[i].failed => ~Fresh(cache, calls[i].key, now)

\* C4: for each target field, process_data yields a growth entry exactly when
\* the field has at least 2 non-missing values and the oldest of them is > 0;
\* the entry's end value is the most recent non-missing value, its start value
\* the oldest one, its number of periods their count minus 1.
Present(financials, col) ==
    IF col \in DOMAIN financials THEN non_null(financials[col]) ELSE <<>>

C4_GrowthEntry ==
    processed_data.status # "none" =>
        /\ processed_data.status = "ok"
        /\ \A col \in Range(CagrCols) :
              LET vals == Present(full_data.financials, col)
                  due == Len(vals) >= 2 /\ vals[Len(vals)][1] > 0
              IN  /\ (col \in DOMAIN processed_data.cagr) <=> due
                  /\ due => /\ processed_data.cagr[col].end_val = vals[1][1]
                            /\ processed_data.cagr[col].start_val = vals[Len(vals)][1]
                            /\ processed_data.cagr[col].num_years = Len(vals) - 1

\* C5: a row of the display window is a cross event exactly when it has a row
\* before it in the window and its signal (+1 when MA50 > MA200, otherwise -1)
\* differs from that row's; the first row is never one; the event is drawn as a
\* golden cross exactly when the signal went from -1 to +1 and as a death cross
\* exactly when it went from +1 to -1.
SignalOf(row) ==
    IF row.MA50.num * row.MA200.den > row.MA200.num * row.MA50.den THEN 1 ELSE -1

Turns(view) == {i \in 2..Len(view) : SignalOf(view[i]) # SignalOf(view[i - 1])}

C5_CrossEvents ==
    processed_data.status = "ok" =>
        LET view == processed_data.history
            events == processed_data.cross_events
            row(d) == CHOOSE i \in 1..Len(view) : view[i].Date = d
        IN  /\ {events[j].Date : j \in 1..Len(events)}
                  = {view[i].Date : i \in Turns(view)}
            /\ Len(events) = Cardinality(Turns(view))
            /\ \A j \in 1..Len(events) : Len(view) > 0 /\ events[j].Date # view[1].Date
            /\ fig # <<>> =>
                  /\ Len(fig) = Len(events)
                  /\ \A j \in 1..Len(fig) :
                        LET i == row(fig[j].Date)
                        IN  /\ fig[j].Date = events[j].Date
                            /\ fig[j].name = "golden" <=>
                                  (SignalOf(view[i - 1]) = -1 /\ SignalOf(view[i]) = 1)
                            /\ fig[j].name = "death" <=>
                                  (SignalOf(view[i - 1]) = 1 /\ SignalOf(view[i]) = -1)

C5_Witness ==
    /\ processed_data.status = "ok"
    /\ Len(processed_data.history) = ViewRows
    /\ \E j \in 1..Len(fig) : fig[j].name = "golden"
    /\ \E j \in 1..Len(fig) : fig[j].name = "death"

\* C6: with one session and no other writer, after a favorite toggle, whether
\* its write succeeded or failed, the session's favorites are the symbol set of
\* the remote document; after a failed write they are the set they were before
\* the toggle.
RemoteSymbols == IF remote.exists THEN Range(remote.content) ELSE Range(DefaultFavorites)

C6_FavoritesFollowRemote ==
    \A s \in Sessions :
        (obs[s].toggle \in {"ok", "failed"} /\ \A o \in Sessions \ {s} : pc[o] = "new") =>
            /\ Favorites(s) = RemoteSymbols
            /\ obs[s].toggle = "failed" => Favorites(s) = Range(obs[s].before)

\* C7: the content of the remote document never holds two entries that are
\* equal or that differ only in letter case.
C7_WrittenContentNormalized ==
    \A i, j \in 1..Len(remote.content) :
        i # j => upper(remote.content[i]) # upper(remote.content[j])

\* C8: a lookup whose history has fewer than 200 bars (none included) ends
\* without an uncaught exception, in the "no data" outcome; its display window,
\* extrema and cross events are empty.  (Stated for the lookups whose metrics
\* scrape did not fail.)
Ended(s) ==
    obs[s].outcome \in {"info", "no_data", "process_raised", "row_raised", "rendered"}

C8_ShortHistoryNoData ==
    /\ \A d \in DOMAIN Dataset :
          Bars[d] < LongWindow =>
              /\ Processed[d].status = "ok"
              /\ Processed[d].history = <<>>
              /\ Processed[d].max_point = <<>> /\ Processed[d].min_point = <<>>
              /\ Processed[d].cross_events = <<>>
    /\ \A s \in Sessions :
          (Ended(s) /\ obs[s].bars >= 0 /\ obs[s].bars < LongWindow) =>
              obs[s].outcome = "no_data"

\* C9: the RSI of every row of the display window is a number in [0,100]: 100
\* when the average loss is 0 and the average gain is positive, and a number
\* also when both averages are 0.
C9_RsiInRange ==
    processed_data.status = "ok" =>
        \A i \in 1..Len(processed_data.history) :
            LET row == processed_data.history[i]
                g == avg_gain(full_data.history, row.Date)
                l == avg_loss(full_data.history, row.Date)
            IN  /\ row.RSI.kind = "num"
                /\ 0 <= row.RSI.lo /\ row.RSI.hi <= 100
                /\ (l = 0 /\ g > 0) => (row.RSI.lo = 100 /\ row.RSI.hi = 100)

\* C10: a cached call made while its key has an entry younger than the ttl
\* returns the entry's value and does not run the function; any other call runs
\* the function once and stores what it returns; a successful write of the
\* favorites empties the cache, and the first read of the favorites after it is
\* a fetch of the remote document.
C10_CacheContract ==
    [][/\ \A i \in 1..Len(calls') :
             LET r == calls'[i]
                 k == r.key
             IN  IF k \in DOMAIN cache /\ now < cache[k].computed_at + ttl(k)
                 THEN /\ r.invoked = 0
                      /\ r.value = cache[k].value
                      /\ cache'[k] = cache[k]
                 ELSE /\ r.invoked = 1
                      /\ ~r.raised =>
                            /\ k \in DOMAIN cache'
                            /\ cache'[k] = [value |-> r.value, computed_at |-> now]
       /\ remote' # remote => DOMAIN cache' = {}
       /\ \A i \in 1..Len(calls') :
             (calls'[i].key = ReadKey /\ unread_write) =>
                 /\ calls'[i].invoked = 1
                 /\ ~calls'[i].failed => calls'[i].value.list = remote.content]_vars

C10_Witness ==
    /\ now > 0
    /\ \E i \in 1..Len(calls) :
          /\ calls[i].key = ReadKey
          /\ calls[i].after_write
          /\ calls[i].invoked = 1
    /\ \E i \in 1..Len(calls) : calls[i].invoked = 0
====
